---- MODULE Spec2Model ----
(***************************************************************************)
(* Model of the PDF-to-markdown front end (src/unnamed/part_000, the page  *)
(* component HomePage) and of its proxy route (src/app/api/convert/        *)
(* route.ts, the handlers POST and GET).                                   *)
(*                                                                         *)
(* Spec      : the browser side. One HomePage component, its React state,  *)
(*             the pollers its useEffect creates, the browser's timer      *)
(*             table and the fetches in flight.                            *)
(* ProxySpec : the server side. The module constants APP_ID / APP_KEY      *)
(*             captured when route.ts is loaded, and one request handled   *)
(*             per step by POST or GET.                                    *)
(***************************************************************************)
EXTENDS Integers, Sequences, FiniteSets, TLC

VARIABLES
    mounted,       \* the HomePage component is mounted
    isSubmitting,  \* useState(false)                         part_000:30
    status,        \* useState<PdfJobStatus | null>(null)     part_000:31
    jobId,         \* useState<string | null>(null)           part_000:32
    error,         \* useState<string | null>(null)           part_000:33
    markdown,      \* useState<string>("")                    part_000:34
    rawResponse,   \* useState<unknown>(null)                 part_000:35
    pollers,       \* one record per run of the polling effect (its closure)
    timers,        \* the browser's pending setTimeout entries
    requests,      \* status fetches in flight (GET /api/convert?jobId=)
    upload,        \* the upload fetch of handleSubmit: "none" or "inflight"
    nextTimer,     \* next timer id handed out by setTimeout
    nextReq,       \* sequence number of the next fetch the page issues
    lastApplied,   \* sequence number of the last status response applied to state
    lastEvent,     \* what the last step was (history)
    env,           \* process.env of the server process
    APP_ID,        \* const APP_ID = process.env.MATHPIX_APP_ID   route.ts:4
    APP_KEY,       \* const APP_KEY = process.env.MATHPIX_APP_KEY route.ts:5
    exchange,      \* the request last handled by the route, with its outcome
    handled        \* requests handled so far

clientVars == <<mounted, isSubmitting, status, jobId, error, markdown, rawResponse,
                pollers, timers, requests, upload, nextTimer, nextReq, lastApplied,
                lastEvent>>
proxyVars == <<env, APP_ID, APP_KEY, exchange, handled>>
vars == <<clientVars, proxyVars>>

(***************************************************************************)
(* Bounds of the model                                                     *)
(***************************************************************************)
MaxFetches == 3   \* fetches (uploads and status checks) the page issues in one run
MaxHandled == 2   \* requests handled by the route in one run

(***************************************************************************)
(* JavaScript values                                                       *)
(***************************************************************************)
Null == "<null>"          \* null
Absent == "<undefined>"   \* undefined: a missing field or variable
NoData == [absent |-> TRUE]   \* payload.data is undefined
NullStatus == [null |-> TRUE] \* the state value null of status / rawResponse

\* a ?? b                                              part_000:74, route.ts:64
Coalesce(a, b) == IF a = Null \/ a = Absent THEN b ELSE a

\* the truthiness of a string-or-missing value         part_000:79, 149
Falsy(a) == a = Null \/ a = Absent \/ a = ""

\* a || b
OrElse(a, b) == IF Falsy(a) THEN b ELSE a
(***************************************************************************)
(* Payloads: the JSON objects the page receives (interface PdfJobStatus,   *)
(* part_000:9-24, with the id / pdf_id fields of part_000:143-147).        *)
(* An optional number is <<>> when missing and <<n>> when present.         *)
(***************************************************************************)
EmptyPayload ==
    [job_id |-> Absent, id |-> Absent, pdf_id |-> Absent, status |-> Absent,
     num_pages |-> <<>>, pages_processed |-> <<>>, error |-> Absent,
     data |-> NoData, markdown |-> Absent, html |-> Absent, text |-> Absent]

StatusValues ==
    {Absent, "processing", "completed", "Completed", "error", "ERROR",
     "failed", "Failed"}
ErrorValues == {"", "OCR timeout"}
DataValues == {NoData, [value |-> Absent], [value |-> ""], [value |-> "# Result"]}
MarkdownValues == {Absent, "", "**md**"}
HtmlValues == {Absent, "", "<p>html</p>"}
TextValues == {Absent, "plain text"}
NumPagesValues == {<<>>, <<0>>, <<10>>}
PagesProcessedValues == {<<>>, <<0>>, <<4>>, <<12>>}

\* responses of the status endpoint: every status spelling, the error field
\* of a failed job, every shape of result of a completed job, every progress
\* report of a job in progress
StatusPayloads ==
    {[EmptyPayload EXCEPT !.status = s] : s \in StatusValues}
    \cup {[EmptyPayload EXCEPT !.status = s, !.error = e] :
            s \in {"failed", "ERROR"}, e \in ErrorValues}
    \cup {[EmptyPayload EXCEPT !.status = "completed", !.data = d, !.markdown = m,
                               !.html = h, !.text = t] :
            d \in DataValues, m \in MarkdownValues, h \in HtmlValues, t \in TextValues}
    \cup {[EmptyPayload EXCEPT !.status = "processing", !.num_pages = n,
                               !.pages_processed = k] :
            n \in NumPagesValues, k \in PagesProcessedValues}

\* responses of the upload endpoint
UploadPayloads ==
    {[EmptyPayload EXCEPT !.status = "queued", !.job_id = a, !.id = b, !.pdf_id = c] :
        a \in {Absent, "", "abc123"}, b \in {Absent, "", "id-7"},
        c \in {Absent, "pdf-9"}}

\* String.prototype.toLowerCase on the status spellings above   part_000:71
ToLowerCase(s) ==
    CASE s = "Completed" -> "completed"
      [] s = "COMPLETED" -> "completed"
      [] s = "ERROR" -> "error"
      [] s = "Failed" -> "failed"
      [] OTHER -> s

\* a comparison that forgets toLowerCase
CompletionStateCaseSensitive(payload) == payload.status

\* payload.status?.toLowerCase()                                part_000:71
CompletionState(payload) ==
    IF payload.status = Absent THEN Absent ELSE ToLowerCase(payload.status)

\* payload.data?.value                                          part_000:74
DataValue(payload) ==
    IF payload.data = NoData THEN Absent ELSE payload.data.value

\* payload.data?.value ?? payload.markdown ?? payload.html ?? payload.text ?? ""
DerivedMarkdown(payload) ==
    Coalesce(DataValue(payload),
        Coalesce(payload.markdown,
            Coalesce(payload.html,
                Coalesce(payload.text, ""))))

\* an error message picked with ?? instead of ||
ConversionErrorMessageNullish(payload) ==
    Coalesce(payload.error, "Conversion failed. Check Mathpix dashboard for details.")

\* payload.error || "Conversion failed. Check Mathpix dashboard for details."
ConversionErrorMessage(payload) ==
    OrElse(payload.error, "Conversion failed. Check Mathpix dashboard for details.")

\* a job id picked with ?? instead of ||
NewJobIdNullish(payload) ==
    Coalesce(payload.job_id, Coalesce(payload.id, payload.pdf_id))

\* payload.job_id || payload.id || payload.pdf_id               part_000:149
NewJobId(payload) ==
    OrElse(payload.job_id, OrElse(payload.id, payload.pdf_id))

POLL_INTERVAL_MS == 5000

(***************************************************************************)
(* progress, part_000:100-108.  A quotient is the exact fraction <<n, d>>. *)
(***************************************************************************)
\* status?.num_pages and status?.pages_processed: <<>> when status is null or
\* the field is missing
NumPagesOf(st) == IF st = NullStatus THEN <<>> ELSE st.num_pages
PagesProcessedOf(st) == IF st = NullStatus THEN <<>> ELSE st.pages_processed

\* !x for an optional number: missing or 0
NotNumber(x) == x = <<>> \/ x[1] = 0

\* Math.min(a / b, 1) for b > 0
MinWithOne(a, b) == IF a > b THEN <<1, 1>> ELSE <<a, b>>

\* a progress that is not clamped
ProgressUnclamped(st) ==
    IF NotNumber(NumPagesOf(st)) \/ NotNumber(PagesProcessedOf(st)) THEN <<0, 1>>
    ELSE <<PagesProcessedOf(st)[1], NumPagesOf(st)[1]>>

\* const progress = useMemo(...)
Progress(st) ==
    IF NotNumber(NumPagesOf(st)) \/ NotNumber(PagesProcessedOf(st)) THEN <<0, 1>>
    ELSE IF NumPagesOf(st)[1] = 0 THEN <<0, 1>>
    ELSE MinWithOne(PagesProcessedOf(st)[1], NumPagesOf(st)[1])

(***************************************************************************)
(* Timers: setTimeout / clearTimeout on the browser's timer table.         *)
(***************************************************************************)
SetTimeout(tms, id, p, ms) == tms \cup {[id |-> id, poller |-> p, delay |-> ms]}

ClearTimeout(tms, id) == {t \in tms : t.id # id}

TimersOf(tms, p) == {t \in tms : t.poller = p}
RequestsOf(rqs, p) == {r \in rqs : r.poller = p}
(***************************************************************************)
(* The polling effect, part_000:51-98.  Each run of the effect with a      *)
(* truthy jobId creates one closure: its jobId, its `ignore` flag and its  *)
(* `timer` variable.  threw is history: poll ended in its catch.           *)
(* lastStatus is history too: the raw status field of the                  *)
(* last response this poller processed.                                    *)
(***************************************************************************)
NoTimer == 0
NothingYet == "<nothing processed>"

LivePollers(ps) == {p \in DOMAIN ps : ~ps[p].ignore}

\* timer = setTimeout(poll, POLL_INTERVAL_MS) in the effect body (line 90)
ScheduleTimers(tms, id, p) == SetTimeout(tms, id, p, POLL_INTERVAL_MS)

\* a poll that forgets to schedule the next one
RescheduleTimersDropped(tms, id, p) == tms

\* timer = setTimeout(poll, POLL_INTERVAL_MS) at the end of poll (line 82)
RescheduleTimers(tms, id, p) == SetTimeout(tms, id, p, POLL_INTERVAL_MS)

\* the effect body for a truthy jobId: lines 56-57 and 90
EffectPollers(ps, id, timerId) ==
    Append(ps, [jobId |-> id, ignore |-> FALSE, timer |-> timerId,
                lastStatus |-> NothingYet, threw |-> FALSE])

\* a cleanup that forgets ignore = true
CleanupPollersNoIgnore(ps) == ps

\* the cleanup of the effect, lines 92-97: ignore = true
CleanupPollers(ps) ==
    [p \in DOMAIN ps |-> [ps[p] EXCEPT !.ignore = TRUE]]

\* a cleanup that forgets clearTimeout
CleanupTimersKept(ps, tms) == tms

\* the cleanup of the effect, lines 94-96: if (timer) clearTimeout(timer)
CleanupTimers(ps, tms) ==
    IF LivePollers(ps) = {} THEN tms
    ELSE LET p == CHOOSE q \in LivePollers(ps) : TRUE
         IN  IF ps[p].timer # NoTimer THEN ClearTimeout(tms, ps[p].timer) ELSE tms

\* history of the step just taken; arg is the file handed to handleSubmit or
\* the message thrown into a catch
Event(kind, p, r, live, payload) ==
    [kind |-> kind, poller |-> p, req |-> r, live |-> live, payload |-> payload,
     arg |-> Absent]

EventWithArg(kind, p, r, live, arg) ==
    [Event(kind, p, r, live, EmptyPayload) EXCEPT !.arg = arg]

(***************************************************************************)
(* handleSubmit, part_000:110-162, up to its await of the upload fetch.    *)
(* The submit button is disabled while isSubmitting (line 214).            *)
(***************************************************************************)
NoFile == "<no file>"
FileTypes == {NoFile, "application/pdf", "image/png"}

\* a handler that resets the page before it validates the file
HandleSubmitResetsFirst(file) ==
    /\ mounted
    /\ ~isSubmitting
    /\ status' = NullStatus
    /\ jobId' = Null
    /\ markdown' = ""
    /\ rawResponse' = NullStatus
    /\ pollers' = CleanupPollers(pollers)
    /\ timers' = CleanupTimers(pollers, timers)
    /\ lastEvent' = EventWithArg("handleSubmit", 0, 0, FALSE, file)
    /\ IF file = NoFile
       THEN /\ error' = "Attach a PDF to convert."
            /\ UNCHANGED <<isSubmitting, upload, nextReq>>
       ELSE IF file # "application/pdf"
       THEN /\ error' = "Only PDF files are supported."
            /\ UNCHANGED <<isSubmitting, upload, nextReq>>
       ELSE /\ nextReq <= MaxFetches
            /\ isSubmitting' = TRUE
            /\ error' = Null
            /\ upload' = "inflight"
            /\ nextReq' = nextReq + 1
    /\ UNCHANGED <<mounted, requests, nextTimer, lastApplied, proxyVars>>

HandleSubmit(file) ==
    /\ mounted
    /\ ~isSubmitting
    /\ IF file = NoFile
       THEN /\ error' = "Attach a PDF to convert."
            /\ lastEvent' = EventWithArg("handleSubmit", 0, 0, FALSE, file)
            /\ UNCHANGED <<isSubmitting, status, jobId, markdown, rawResponse,
                           pollers, timers, upload, nextReq>>
       ELSE IF file # "application/pdf"
       THEN /\ error' = "Only PDF files are supported."
            /\ lastEvent' = EventWithArg("handleSubmit", 0, 0, FALSE, file)
            /\ UNCHANGED <<isSubmitting, status, jobId, markdown, rawResponse,
                           pollers, timers, upload, nextReq>>
       ELSE /\ nextReq <= MaxFetches
            /\ isSubmitting' = TRUE
            /\ error' = Null
            /\ status' = NullStatus
            /\ jobId' = Null
            /\ markdown' = ""
            /\ rawResponse' = NullStatus
            \* jobId changed to null: React runs the cleanup of the effect
            /\ pollers' = CleanupPollers(pollers)
            /\ timers' = CleanupTimers(pollers, timers)
            /\ upload' = "inflight"
            /\ nextReq' = nextReq + 1
            /\ lastEvent' = EventWithArg("handleSubmit", 0, 0, FALSE, file)
    /\ UNCHANGED <<mounted, requests, nextTimer, lastApplied, proxyVars>>

(***************************************************************************)
(* handleSubmit after the upload fetch settles, part_000:132-161.          *)
(* State updates of an unmounted component are dropped by React.           *)
(***************************************************************************)
\* what the try block throws: the rejection of fetch, new Error(text ||
\* "Upload failed") for a non-OK response with body text (lines 138-141), or
\* the SyntaxError of response.json() for an OK response that is not JSON
UploadErrorBodies == {"", "{\"error\":\"Mathpix rejected\"}"}
UploadThrown ==
    {"Failed to fetch", "Unexpected end of JSON input"}
    \cup {OrElse(text, "Upload failed") : text \in UploadErrorBodies}

UploadSucceeds(payload) ==
    /\ upload = "inflight"
    /\ upload' = "none"
    /\ lastEvent' = Event("uploadOk", 0, 0, mounted, IF mounted THEN payload ELSE EmptyPayload)
    /\ IF ~mounted
       THEN UNCHANGED <<isSubmitting, status, jobId, error, markdown, rawResponse,
                        pollers, timers, nextTimer>>
       ELSE /\ isSubmitting' = FALSE
            /\ IF Falsy(NewJobId(payload))
               THEN /\ error' = "Upload succeeded but no job id returned by Mathpix."
                    /\ UNCHANGED <<status, jobId, rawResponse, pollers, timers, nextTimer>>
               ELSE /\ jobId' = NewJobId(payload)
                    /\ status' = payload
                    /\ rawResponse' = payload
                    \* jobId changed to a truthy value: React runs the effect
                    /\ pollers' = EffectPollers(pollers, NewJobId(payload), nextTimer)
                    /\ timers' = ScheduleTimers(timers, nextTimer, Len(pollers) + 1)
                    /\ nextTimer' = nextTimer + 1
                    /\ UNCHANGED error
            /\ UNCHANGED markdown
    /\ UNCHANGED <<mounted, requests, nextReq, lastApplied, proxyVars>>

\* the upload fetch rejects, or answers with a non-OK status and body `message`
UploadFails(message) ==
    /\ upload = "inflight"
    /\ upload' = "none"
    /\ lastEvent' = Event("uploadFailed", 0, 0, mounted, EmptyPayload)
    /\ IF ~mounted
       THEN UNCHANGED <<isSubmitting, error>>
       ELSE /\ isSubmitting' = FALSE
            /\ error' = message
    /\ UNCHANGED <<mounted, status, jobId, markdown, rawResponse, pollers, timers,
                   requests, nextTimer, nextReq, lastApplied, proxyVars>>
(***************************************************************************)
(* poll, part_000:59-88.                                                   *)
(***************************************************************************)
\* a timer that stays armed when it fires (setInterval instead of setTimeout)
TimerFiresRearmed(t) ==
    /\ t \in timers
    /\ nextReq <= MaxFetches
    /\ requests' = requests \cup
         {[id |-> nextReq, poller |-> t.poller, jobId |-> pollers[t.poller].jobId]}
    /\ nextReq' = nextReq + 1
    /\ lastEvent' = Event("timerFired", t.poller, nextReq, ~pollers[t.poller].ignore,
                          EmptyPayload)
    /\ UNCHANGED <<mounted, isSubmitting, status, jobId, error, markdown, rawResponse,
                   pollers, timers, upload, nextTimer, lastApplied, proxyVars>>

\* a pending timer fires: poll starts and issues its fetch (line 61)
TimerFires(t) ==
    /\ t \in timers
    /\ nextReq <= MaxFetches
    /\ timers' = timers \ {t}
    /\ requests' = requests \cup
         {[id |-> nextReq, poller |-> t.poller, jobId |-> pollers[t.poller].jobId]}
    /\ nextReq' = nextReq + 1
    /\ lastEvent' = Event("timerFired", t.poller, nextReq, ~pollers[t.poller].ignore,
                          EmptyPayload)
    /\ UNCHANGED <<mounted, isSubmitting, status, jobId, error, markdown, rawResponse,
                   pollers, upload, nextTimer, lastApplied, proxyVars>>

\* a poll that forgets the job once it has its final status
PollRespondsForgetsJob(r, payload) ==
    /\ r \in requests
    /\ requests' = requests \ {r}
    /\ IF pollers[r.poller].ignore
       THEN /\ lastEvent' = Event("pollOk", r.poller, r.id, FALSE, EmptyPayload)
            /\ UNCHANGED <<status, rawResponse, markdown, error, pollers, timers,
                           nextTimer, lastApplied, jobId>>
       ELSE /\ lastEvent' = Event("pollOk", r.poller, r.id, TRUE, payload)
            /\ status' = payload
            /\ rawResponse' = payload
            /\ lastApplied' = r.id
            /\ pollers' = [pollers EXCEPT ![r.poller].lastStatus = payload.status]
            /\ IF CompletionState(payload) \in {"completed", "error", "failed"}
               THEN /\ jobId' = Null
                    /\ markdown' = IF CompletionState(payload) = "completed"
                                   THEN DerivedMarkdown(payload) ELSE markdown
                    /\ error' = IF CompletionState(payload) = "completed"
                                THEN error ELSE ConversionErrorMessage(payload)
                    /\ UNCHANGED <<timers, nextTimer>>
               ELSE /\ timers' = RescheduleTimers(timers, nextTimer, r.poller)
                    /\ nextTimer' = nextTimer + 1
                    /\ UNCHANGED <<markdown, error, jobId>>
    /\ UNCHANGED <<mounted, isSubmitting, upload, nextReq, proxyVars>>

\* the fetch of request r resolves with an OK response whose JSON is payload:
\* lines 65-82
PollResponds(r, payload) ==
    /\ r \in requests
    /\ requests' = requests \ {r}
    /\ IF pollers[r.poller].ignore
       THEN /\ lastEvent' = Event("pollOk", r.poller, r.id, FALSE, EmptyPayload)
            /\ UNCHANGED <<status, rawResponse, markdown, error, pollers, timers,
                           nextTimer, lastApplied>>
       ELSE /\ lastEvent' = Event("pollOk", r.poller, r.id, TRUE, payload)
            /\ status' = payload
            /\ rawResponse' = payload
            /\ lastApplied' = r.id
            /\ IF CompletionState(payload) = "completed"
               THEN /\ markdown' = DerivedMarkdown(payload)
                    /\ pollers' = [pollers EXCEPT ![r.poller].lastStatus = payload.status]
                    /\ UNCHANGED <<error, timers, nextTimer>>
               ELSE IF CompletionState(payload) = "error"
                       \/ CompletionState(payload) = "failed"
               THEN /\ error' = ConversionErrorMessage(payload)
                    /\ pollers' = [pollers EXCEPT ![r.poller].lastStatus = payload.status]
                    /\ UNCHANGED <<markdown, timers, nextTimer>>
               ELSE /\ timers' = RescheduleTimers(timers, nextTimer, r.poller)
                    /\ pollers' = [pollers EXCEPT ![r.poller].lastStatus = payload.status,
                                                  ![r.poller].timer = nextTimer]
                    /\ nextTimer' = nextTimer + 1
                    /\ UNCHANGED <<markdown, error>>
    /\ UNCHANGED <<mounted, isSubmitting, jobId, upload, nextReq, proxyVars>>

\* what the try block of poll throws before it updates any state: the
\* rejection of fetch, new Error(`Polling failed: ${response.status}`) for a
\* non-OK response (lines 62-64), or the SyntaxError of response.json() for an
\* OK response that is not JSON
PollFailureStatuses == {500}
PollThrown ==
    {"Failed to fetch", "Unexpected end of JSON input"}
    \cup {"Polling failed: " \o ToString(s) : s \in PollFailureStatuses}

\* a catch that retries after the interval
PollFailsRetries(r, message) ==
    /\ r \in requests
    /\ requests' = requests \ {r}
    /\ IF pollers[r.poller].ignore
       THEN /\ lastEvent' = Event("pollFailed", r.poller, r.id, FALSE, EmptyPayload)
            /\ UNCHANGED <<error, pollers, timers, nextTimer>>
       ELSE /\ lastEvent' = EventWithArg("pollFailed", r.poller, r.id, TRUE, message)
            /\ error' = message
            /\ pollers' = [pollers EXCEPT ![r.poller].threw = TRUE,
                                          ![r.poller].timer = nextTimer]
            /\ timers' = RescheduleTimers(timers, nextTimer, r.poller)
            /\ nextTimer' = nextTimer + 1
    /\ UNCHANGED <<mounted, isSubmitting, status, jobId, markdown, rawResponse,
                   upload, nextReq, lastApplied, proxyVars>>

\* the catch of poll, lines 83-87
PollFails(r, message) ==
    /\ r \in requests
    /\ requests' = requests \ {r}
    /\ IF pollers[r.poller].ignore
       THEN /\ lastEvent' = Event("pollFailed", r.poller, r.id, FALSE, EmptyPayload)
            /\ UNCHANGED <<error, pollers>>
       ELSE /\ lastEvent' = EventWithArg("pollFailed", r.poller, r.id, TRUE, message)
            /\ error' = message
            /\ pollers' = [pollers EXCEPT ![r.poller].threw = TRUE]
    /\ UNCHANGED <<mounted, isSubmitting, status, jobId, markdown, rawResponse,
                   timers, upload, nextTimer, nextReq, lastApplied, proxyVars>>

\* the component is unmounted: React runs the cleanup of the effect
Unmount ==
    /\ mounted
    /\ mounted' = FALSE
    /\ pollers' = CleanupPollers(pollers)
    /\ timers' = CleanupTimers(pollers, timers)
    /\ lastEvent' = Event("unmount", 0, 0, FALSE, EmptyPayload)
    /\ UNCHANGED <<isSubmitting, status, jobId, error, markdown, rawResponse, requests,
                   upload, nextTimer, nextReq, lastApplied, proxyVars>>

(***************************************************************************)
(* The server process, idle (filled in by the proxy section below).        *)
(***************************************************************************)
NoExchange == [kind |-> "none"]

ClientInit ==
    /\ mounted = TRUE
    /\ isSubmitting = FALSE
    /\ status = NullStatus
    /\ jobId = Null
    /\ error = Null
    /\ markdown = ""
    /\ rawResponse = NullStatus
    /\ pollers = <<>>
    /\ timers = {}
    /\ requests = {}
    /\ upload = "none"
    /\ nextTimer = 1
    /\ nextReq = 1
    /\ lastApplied = 0
    /\ lastEvent = Event("init", 0, 0, FALSE, EmptyPayload)

Init ==
    /\ ClientInit
    /\ env = [MATHPIX_APP_ID |-> "id", MATHPIX_APP_KEY |-> "key"]
    /\ APP_ID = "id"
    /\ APP_KEY = "key"
    /\ exchange = NoExchange
    /\ handled = 0

Next ==
    \/ \E file \in FileTypes : HandleSubmit(file)
    \/ \E payload \in UploadPayloads : UploadSucceeds(payload)
    \/ \E message \in UploadThrown : UploadFails(message)
    \/ \E t \in timers : TimerFires(t)
    \/ \E r \in requests, payload \in StatusPayloads : PollResponds(r, payload)
    \/ \E r \in requests, message \in PollThrown : PollFails(r, message)
    \/ Unmount

Spec == Init /\ [][Next]_vars
(***************************************************************************)
(* The proxy route, src/app/api/convert/route.ts.                          *)
(*                                                                         *)
(* A JavaScript value handed to NextResponse.json is a tagged record: the  *)
(* object a JSON text denotes is [type |-> "object", json |-> text].       *)
(***************************************************************************)
JsNull == [type |-> "null"]
JsString(text) == [type |-> "string", value |-> text]
JsNumber(n) == [type |-> "number", value |-> n]
JsObject(text) == [type |-> "object", json |-> text]

\* { error: message }
ErrorObject(message) == JsObject("{\"error\":\"" \o message \o "\"}")

\* the texts the external service answers with: nothing, a page that is not
\* JSON, the JSON texts null and 0, an error object, a job object
UpstreamTexts ==
    {"", "<html>Bad Gateway</html>", "null", "0",
     "{\"error\":\"Invalid credentials\"}",
     "{\"pdf_id\":\"abc123\",\"status\":\"split\"}"}

JsonTexts == UpstreamTexts \ {"", "<html>Bad Gateway</html>"}

\* JSON.parse(text): the value, or [type |-> "throws"] for a SyntaxError
JsonParse(text) ==
    CASE text = "null" -> JsNull
      [] text = "0" -> JsNumber(0)
      [] text \in JsonTexts -> JsObject(text)
      [] OTHER -> [type |-> "throws"]

\* try { parsed = JSON.parse(text) } catch { parsed = text }   route.ts:36-41, 98-103
Parsed(text) ==
    IF JsonParse(text).type = "throws" THEN JsString(text) ELSE JsonParse(text)

\* parsed ?? fallback                                    route.ts:64, 69, 107, 112
ParsedOr(parsed, fallback) == IF parsed = JsNull THEN fallback ELSE parsed

\* response.ok
Ok(statusCode) == statusCode >= 200 /\ statusCode <= 299

UpstreamStatuses == {200, 202, 401, 500}

NoUpstream == [kind |-> "none"]
UpstreamOutcomes ==
    {[kind |-> "rejects"]}
    \cup {[kind |-> "response", status |-> c, text |-> t] :
            c \in UpstreamStatuses, t \in UpstreamTexts}

MATHPIX_ENDPOINT == "https://api.mathpix.com/v3/pdf"

CredentialsMissingMessage ==
    "Mathpix credentials are missing. Set MATHPIX_APP_ID and MATHPIX_APP_KEY env vars."

\* a credential check that fails only when both values are missing
GetCredentialHeaderThrowsIfBoth(appId, appKey) == Falsy(appId) /\ Falsy(appKey)

\* getCredentialHeader throws: !appId || !appKey                route.ts:13
GetCredentialHeaderThrows(appId, appKey) == Falsy(appId) \/ Falsy(appKey)

\* encodeURIComponent on the job identifiers below              route.ts:91
EncodeURIComponent(text) ==
    CASE text = "a/b c" -> "a%2Fb%20c"
      [] OTHER -> text

\* NextResponse.json(body, { status })
Response(statusCode, body) == [status |-> statusCode, body |-> body]

Exchange(kind, request, outbound, upstream, response) ==
    [kind |-> kind, request |-> request, outbound |-> outbound,
     upstream |-> upstream, response |-> response]

\* the form of an upload request: a body request.formData() cannot parse, or
\* the entry "file" of the parsed form (none, a string, a Blob of some type)
UploadRequests ==
    {[parsed |-> FALSE, file |-> [kind |-> "null"]],
     [parsed |-> TRUE, file |-> [kind |-> "null"]],
     [parsed |-> TRUE, file |-> [kind |-> "string"]]}
    \cup {[parsed |-> TRUE, file |-> [kind |-> "blob", type |-> t, bytes |-> "%PDF-1.7"]] :
            t \in {"", "application/pdf", "image/png"}}

\* the outbound call of forwardToMathpix                        route.ts:22-33
UploadCall(appId, appKey, bytes) ==
    [method |-> "POST", url |-> MATHPIX_ENDPOINT, app_id |-> appId, app_key |-> appKey,
     body |-> bytes]

\* what POST answers once the external service has answered    route.ts:63-69
PostRelay(up) ==
    IF ~Ok(up.status)
    THEN Response(up.status,
                  ParsedOr(Parsed(up.text), ErrorObject("Mathpix rejected the request.")))
    ELSE Response(200, ParsedOr(Parsed(up.text), JsObject("{\"success\":true}")))

\* export async function POST                                   route.ts:46-74
PostExchange(req, up, appId, appKey) ==
    IF ~req.parsed
    THEN \* request.formData() rejects with a TypeError: the catch answers
         Exchange("POST", req, <<>>, NoUpstream,
                  Response(500, ErrorObject("Failed to parse body as FormData.")))
    ELSE IF req.file.kind # "blob"
    THEN Exchange("POST", req, <<>>, NoUpstream,
                  Response(400, ErrorObject("Missing PDF file payload.")))
    ELSE IF req.file.type # "" /\ req.file.type # "application/pdf"
    THEN Exchange("POST", req, <<>>, NoUpstream,
                  Response(400, ErrorObject("Only application/pdf uploads are supported.")))
    ELSE IF GetCredentialHeaderThrows(appId, appKey)
    THEN Exchange("POST", req, <<>>, NoUpstream,
                  Response(500, ErrorObject(CredentialsMissingMessage)))
    ELSE IF up.kind = "rejects"
    THEN Exchange("POST", req, <<UploadCall(appId, appKey, req.file.bytes)>>, up,
                  Response(500, ErrorObject("fetch failed")))
    ELSE Exchange("POST", req, <<UploadCall(appId, appKey, req.file.bytes)>>, up,
                  PostRelay(up))

\* request.nextUrl.searchParams.get("jobId"): null when the parameter is absent
StatusRequests == {[jobId |-> j] : j \in {Null, "", "abc123", "a/b c"}}

\* the outbound call of GET                                     route.ts:85-95
StatusCall(appId, appKey, id) ==
    [method |-> "GET", url |-> MATHPIX_ENDPOINT \o "/" \o EncodeURIComponent(id),
     app_id |-> appId, app_key |-> appKey, body |-> ""]

\* what GET answers once the external service has answered     route.ts:105-112
GetRelay(up) ==
    IF ~Ok(up.status)
    THEN Response(up.status,
                  ParsedOr(Parsed(up.text),
                           ErrorObject("Mathpix status lookup failed with "
                                       \o ToString(up.status) \o ".")))
    ELSE Response(200, ParsedOr(Parsed(up.text), JsObject("{}")))

\* export async function GET                                    route.ts:76-117
GetExchange(req, up, appId, appKey) ==
    IF GetCredentialHeaderThrows(appId, appKey)
    THEN Exchange("GET", req, <<>>, NoUpstream,
                  Response(500, ErrorObject(CredentialsMissingMessage)))
    ELSE IF Falsy(req.jobId)
    THEN Exchange("GET", req, <<>>, NoUpstream,
                  Response(400, ErrorObject("jobId query parameter is required.")))
    ELSE IF up.kind = "rejects"
    THEN Exchange("GET", req, <<StatusCall(appId, appKey, req.jobId)>>, up,
                  Response(500, ErrorObject("fetch failed")))
    ELSE Exchange("GET", req, <<StatusCall(appId, appKey, req.jobId)>>, up,
                  GetRelay(up))

\* one upload request handled from arrival to answer
POST(req, up) ==
    /\ handled < MaxHandled
    /\ exchange' = PostExchange(req, up, APP_ID, APP_KEY)
    /\ handled' = handled + 1
    /\ UNCHANGED <<env, APP_ID, APP_KEY, clientVars>>

\* one status request handled from arrival to answer
GET(req, up) ==
    /\ handled < MaxHandled
    /\ exchange' = GetExchange(req, up, APP_ID, APP_KEY)
    /\ handled' = handled + 1
    /\ UNCHANGED <<env, APP_ID, APP_KEY, clientVars>>

\* the values a variable of process.env can have: unset, empty, set
EnvValues == {Absent, "", "secret"}

\* the module is loaded: APP_ID and APP_KEY take the values of process.env
ProxyInit ==
    /\ ClientInit
    /\ env \in [MATHPIX_APP_ID : EnvValues, MATHPIX_APP_KEY : EnvValues]
    /\ APP_ID = env.MATHPIX_APP_ID
    /\ APP_KEY = env.MATHPIX_APP_KEY
    /\ exchange = NoExchange
    /\ handled = 0

\* process.env changes while the server runs; APP_ID and APP_KEY are const
\* bindings of the loaded module (route.ts:4-5) and keep their values
SetEnv(config) ==
    /\ config # env
    /\ env' = config
    /\ UNCHANGED <<APP_ID, APP_KEY, exchange, handled, clientVars>>

ProxyNext ==
    \/ \E req \in UploadRequests, up \in UpstreamOutcomes : POST(req, up)
    \/ \E req \in StatusRequests, up \in UpstreamOutcomes : GET(req, up)
    \/ \E config \in [MATHPIX_APP_ID : EnvValues, MATHPIX_APP_KEY : EnvValues] :
          SetEnv(config)

ProxySpec == ProxyInit /\ [][ProxyNext]_vars

(***************************************************************************)
(* Properties of the page (Spec)                                           *)
(***************************************************************************)
\* the spellings of a status that equal "completed", "error" or "failed"
\* when compared case-insensitively
TerminalSpellings == {"completed", "Completed", "error", "ERROR", "failed", "Failed"}

\* C1: once a poller is torn down (its cleanup has run: the tracked jobId was
\* reset by a valid submission, or the component unmounted) it has no pending
\* timer and issues no further status request, and the response or failure of
\* a request that was in flight at teardown changes none of status,
\* rawResponse, markdown and error.
C1_TornDownPollerIsInert ==
    [][ /\ \A p \in DOMAIN pollers' :
              pollers'[p].ignore => TimersOf(timers', p) = {}
        /\ \A p \in DOMAIN pollers :
              pollers[p].ignore =>
                  /\ RequestsOf(requests', p) \subseteq RequestsOf(requests, p)
                  /\ RequestsOf(requests', p) # RequestsOf(requests, p)
                        => UNCHANGED <<status, rawResponse, markdown, error>>
      ]_vars

\* C1 witness: the response of a torn-down poller's request arrives while a
\* newer job is being tracked.
C1_Witness ==
    /\ lastEvent.kind = "pollOk"
    /\ ~lastEvent.live
    /\ jobId # Null
    /\ LivePollers(pollers) # {}

\* C2: a poller that has processed a response whose status is, case-
\* insensitively, "completed", "error" or "failed" has no timer pending and no
\* request in flight, so it never issues or schedules another status request.
C2_NoPollAfterTerminal ==
    \A p \in DOMAIN pollers :
        pollers[p].lastStatus \in TerminalSpellings
            => TimersOf(timers, p) = {} /\ RequestsOf(requests, p) = {}

\* C2 witness: a poller has processed a terminal status written in mixed case.
C2_Witness ==
    \E p \in DOMAIN pollers :
        pollers[p].lastStatus \in {"Completed", "ERROR", "Failed"}

\* C3: when a live poller processes a successful response whose status is not,
\* case-insensitively, "completed", "error" or "failed" (an absent status
\* included), the response is recorded in status and rawResponse, error and
\* markdown are not set (markdown stays empty), and exactly one timer with the
\* delay POLL_INTERVAL_MS = 5000 is added for that poller, which then has
\* no request in flight.
C3_NonTerminalKeepsPolling ==
    [][ ( /\ lastEvent'.kind = "pollOk"
          /\ lastEvent'.live
          /\ lastEvent'.payload.status \notin TerminalSpellings )
        => /\ status' = lastEvent'.payload
           /\ rawResponse' = lastEvent'.payload
           /\ error' = error
           /\ markdown' = markdown
           /\ markdown' = ""
           /\ jobId' = jobId
           /\ timers \subseteq timers'
           /\ Cardinality(timers' \ timers) = 1
           /\ \A t \in timers' \ timers :
                 t.poller = lastEvent'.poller /\ t.delay = 5000
           /\ Cardinality(TimersOf(timers', lastEvent'.poller)) = 1
           /\ RequestsOf(requests', lastEvent'.poller) = {}
      ]_vars

\* C3 witness: a live poller has processed a response without a status field
\* and its next check is pending.
C3_Witness ==
    /\ lastEvent.kind = "pollOk"
    /\ lastEvent.live
    /\ lastEvent.payload.status = Absent
    /\ TimersOf(timers, lastEvent.poller) # {}

\* C4: polling is serial. A live poller has at most one status check
\* outstanding, a pending timer or a request in flight and never both, and
\* every request in flight of a live poller was issued after the request whose
\* response was last applied, so responses are applied in the order of issue.
C4_SerialPolling ==
    /\ \A p \in LivePollers(pollers) :
          Cardinality(TimersOf(timers, p)) + Cardinality(RequestsOf(requests, p)) <= 1
    /\ \A r \in requests : ~pollers[r.poller].ignore => r.id > lastApplied

\* C4 witness: a live poller that has already applied one response has its
\* next request in flight.
C4_Witness ==
    \E r \in requests :
        /\ ~pollers[r.poller].ignore
        /\ pollers[r.poller].lastStatus # NothingYet
        /\ lastApplied > 0
\* the first non-empty value among data.value, markdown, html and text, in
\* that order, and "" when each is empty or absent
FirstNonEmptyResult(payload) ==
    IF ~Falsy(DataValue(payload)) THEN DataValue(payload)
    ELSE IF ~Falsy(payload.markdown) THEN payload.markdown
    ELSE IF ~Falsy(payload.html) THEN payload.html
    ELSE IF ~Falsy(payload.text) THEN payload.text
    ELSE ""

\* C10: when a live poller has processed a response whose status is, case-
\* insensitively, "completed", markdown is the first non-empty field among
\* data.value, markdown, html and text in that order: an empty field of
\* higher priority does not mask a non-empty one of lower priority.
C10_FirstNonEmptyFieldWins ==
    ( /\ lastEvent.kind = "pollOk"
      /\ lastEvent.live
      /\ lastEvent.payload.status \in {"completed", "Completed"} )
    => markdown = FirstNonEmptyResult(lastEvent.payload)

\* the first non-empty value among job_id, id and pdf_id, in that order, and
\* Absent when each is empty or absent
FirstNonEmptyId(payload) ==
    IF payload.job_id \notin {Absent, ""} THEN payload.job_id
    ELSE IF payload.id \notin {Absent, ""} THEN payload.id
    ELSE IF payload.pdf_id \notin {Absent, ""} THEN payload.pdf_id
    ELSE Absent

\* C11: after a successful upload response (on the mounted page) the tracked
\* jobId is the first non-empty of job_id, id, pdf_id in that order, the
\* response is recorded as status, and one timer with the delay 5000 is set
\* for the new poller; when none of the three fields is non-empty, jobId is
\* not set, no poller and no timer exist, and error is the "no job id
\* returned" message. In both cases isSubmitting ends FALSE.
C11_UploadResponseSetsJobId ==
    [][ ( lastEvent'.kind = "uploadOk" /\ lastEvent'.live )
        => /\ isSubmitting' = FALSE
           /\ IF FirstNonEmptyId(lastEvent'.payload) # Absent
              THEN /\ jobId' = FirstNonEmptyId(lastEvent'.payload)
                   /\ status' = lastEvent'.payload
                   /\ rawResponse' = lastEvent'.payload
                   /\ error' = error
                   /\ Len(pollers') = Len(pollers) + 1
                   /\ pollers'[Len(pollers')].jobId = jobId'
                   /\ ~pollers'[Len(pollers')].ignore
                   /\ Cardinality(timers' \ timers) = 1
                   /\ \A t \in timers' \ timers :
                         t.poller = Len(pollers') /\ t.delay = 5000
                   /\ LivePollers(pollers') = {Len(pollers')}
                   /\ requests' = requests
              ELSE /\ jobId' = Null
                   /\ jobId = Null
                   /\ status' = status
                   /\ error' = "Upload succeeded but no job id returned by Mathpix."
                   /\ LivePollers(pollers') = {}
                   /\ timers' = {}
                   /\ requests' = requests
      ]_vars

\* C11 witness: the upload response had an empty job_id and a non-empty id,
\* and id is now tracked with its first check pending.
C11_Witness ==
    /\ lastEvent.kind = "uploadOk"
    /\ lastEvent.live
    /\ lastEvent.payload.job_id = ""
    /\ lastEvent.payload.id = "id-7"
    /\ jobId = "id-7"
    /\ timers # {}

\* C12: when a live poller processes a response whose status is, case-
\* insensitively, "error" or "failed", error becomes the error string of the
\* response when it is present and non-empty and the generic message
\* otherwise, and markdown is left unchanged.
C12_FailedStatusSurfacesError ==
    [][ ( /\ lastEvent'.kind = "pollOk"
          /\ lastEvent'.live
          /\ lastEvent'.payload.status \in {"error", "ERROR", "failed", "Failed"} )
        => /\ error' = IF lastEvent'.payload.error \notin {Absent, ""}
                       THEN lastEvent'.payload.error
                       ELSE "Conversion failed. Check Mathpix dashboard for details."
           /\ markdown' = markdown
      ]_vars

\* C12 witness: a failed job whose error string was empty got the generic
\* message.
C12_Witness ==
    /\ lastEvent.kind = "pollOk"
    /\ lastEvent.live
    /\ lastEvent.payload.status = "ERROR"
    /\ lastEvent.payload.error = ""
    /\ error = "Conversion failed. Check Mathpix dashboard for details."

\* C13: for every recorded status the progress fraction n/d lies in [0, 1];
\* it is 0 when num_pages is 0 or absent, whatever pages_processed is;
\* otherwise it is pages_processed / num_pages capped at 1, that is
\* progress * num_pages = min(pages_processed, num_pages), a missing
\* pages_processed counting as 0.
C13_ProgressIsClampedFraction ==
    LET pr == Progress(status)
        total == NumPagesOf(status)
        done == IF PagesProcessedOf(status) = <<>> THEN 0 ELSE PagesProcessedOf(status)[1]
    IN  /\ pr[2] > 0
        /\ 0 <= pr[1]
        /\ pr[1] <= pr[2]
        /\ IF total = <<>> \/ total[1] = 0
           THEN pr[1] = 0
           ELSE pr[1] * total[1] = (IF done < total[1] THEN done ELSE total[1]) * pr[2]

\* C13 witness: 12 of 10 pages processed is shown as a progress of 1.
C13_Witness ==
    /\ status # NullStatus
    /\ status.num_pages = <<10>>
    /\ status.pages_processed = <<12>>
    /\ Progress(status) = <<1, 1>>

\* C14: no step of a poll (its timer firing, its response, its failure)
\* changes jobId or the jobId a poller was created with; jobId is written
\* only by a valid submission, which sets it to null, and by an upload
\* response that carries an identifier, which assigns it while it is null.
C14_PollsNeverWriteJobId ==
    [][ /\ lastEvent'.kind \in {"timerFired", "pollOk", "pollFailed"} => jobId' = jobId
        /\ jobId' # jobId =>
             \/ /\ lastEvent'.kind = "handleSubmit"
                /\ lastEvent'.arg = "application/pdf"
                /\ jobId' = Null
             \/ /\ lastEvent'.kind = "uploadOk"
                /\ lastEvent'.live
                /\ jobId = Null
                /\ jobId' = FirstNonEmptyId(lastEvent'.payload)
        /\ \A p \in DOMAIN pollers : pollers'[p].jobId = pollers[p].jobId
      ]_vars

\* C14 witness: the second poll of a job has just failed, after a first one
\* was applied, and jobId is still the identifier the poller was created with.
C14_Witness ==
    /\ lastEvent.kind = "pollFailed"
    /\ lastEvent.live
    /\ pollers[lastEvent.poller].lastStatus # NothingYet
    /\ jobId # Null
    /\ jobId = pollers[lastEvent.poller].jobId

\* C15: a submission with no file, or with a file that is not
\* application/pdf, sets the validation error and changes nothing else: no
\* request is issued, isSubmitting, jobId, status, markdown and rawResponse
\* keep their values, and the pollers, their timers and their requests in
\* flight are left as they were.
C15_InvalidSubmissionChangesNothing ==
    [][ (lastEvent'.kind = "handleSubmit" /\ lastEvent'.arg # "application/pdf") =>
            /\ error' = (IF lastEvent'.arg = NoFile THEN "Attach a PDF to convert."
                         ELSE "Only PDF files are supported.")
            /\ UNCHANGED <<isSubmitting, jobId, status, markdown, rawResponse,
                           pollers, timers, requests, upload, nextReq>>
      ]_vars

\* C15 witness: a file of the wrong type was submitted while a job was being
\* polled, and the poll is still scheduled.
C15_Witness ==
    /\ lastEvent.kind = "handleSubmit"
    /\ lastEvent.arg = "image/png"
    /\ error = "Only PDF files are supported."
    /\ jobId # Null
    /\ \E p \in LivePollers(pollers) : TimersOf(timers, p) # {}

\* C18: when a status request of a live poller fails, error becomes the
\* failure message, status, markdown, jobId and rawResponse keep their
\* values, and the poller is left with no timer and no request; a poller
\* that has failed never has a timer or a request again, and a new poller
\* only comes with an upload response.
C18_FailedPollEndsPolling ==
    [][ /\ (lastEvent'.kind = "pollFailed" /\ lastEvent'.live) =>
            /\ lastEvent'.arg \in PollThrown
            /\ error' = lastEvent'.arg
            /\ UNCHANGED <<status, markdown, jobId, rawResponse>>
            /\ pollers'[lastEvent'.poller].threw
        /\ \A p \in DOMAIN pollers' :
              pollers'[p].threw =>
                  TimersOf(timers', p) = {} /\ RequestsOf(requests', p) = {}
        /\ \A p \in DOMAIN pollers : pollers[p].threw => pollers'[p].threw
        /\ Len(pollers') # Len(pollers) =>
              lastEvent'.kind = "uploadOk" /\ Len(pollers') = Len(pollers) + 1
      ]_vars

\* C18 witness: a live poll got a non-OK response from the status endpoint
\* before any terminal status was seen; polling has stopped.
C18_Witness ==
    /\ lastEvent.kind = "pollFailed"
    /\ lastEvent.live
    /\ error = "Polling failed: 500"
    /\ jobId # Null
    /\ pollers[lastEvent.poller].lastStatus \notin TerminalSpellings
    /\ timers = {}
    /\ requests = {}

\* C19: whenever markdown is non-empty, a job identifier is tracked, the
\* recorded status is "completed" in some spelling, and that status is the
\* last one processed by the newest poller, which polls the tracked job.
C19_ResultBelongsToCompletedJob ==
    markdown # "" =>
        /\ jobId # Null
        /\ status # NullStatus
        /\ status.status \in {"completed", "Completed"}
        /\ pollers # <<>>
        /\ pollers[Len(pollers)].jobId = jobId
        /\ pollers[Len(pollers)].lastStatus = status.status
        /\ mounted => ~pollers[Len(pollers)].ignore

\* C19 witness: the result of a second job is shown; the poller of the first
\* job was torn down by the second submission.
C19_Witness ==
    /\ markdown # ""
    /\ Len(pollers) = 2
    /\ pollers[1].ignore

(***************************************************************************)
(* Properties of the proxy route (ProxySpec)                               *)
(***************************************************************************)
\* an upload request without a file payload: no parsable form, or no Blob
\* in its "file" entry
NoFilePayload(req) == ~req.parsed \/ req.file.kind # "blob"

\* an upload request whose file declares a media type that is not empty and
\* not application/pdf
WrongMediaType(req) ==
    /\ req.parsed
    /\ req.file.kind = "blob"
    /\ req.file.type \notin {"", "application/pdf"}

\* C5: every upload request that has no file payload, or whose file declares
\* a non-empty media type other than application/pdf, is answered with 400
\* and without an outbound call, whether or not the credentials are set.
C5_InvalidUploadIsClientError ==
    ( /\ exchange.kind = "POST"
      /\ NoFilePayload(exchange.request) \/ WrongMediaType(exchange.request) )
    => exchange.response.status = 400 /\ exchange.outbound = <<>>

\* C6: every status request without a job identifier (the jobId parameter
\* absent or empty) is answered with 400 and without an outbound call, in
\* every configuration of the credentials.
C6_MissingJobIdIsClientError ==
    ( /\ exchange.kind = "GET"
      /\ exchange.request.jobId \in {Null, ""} )
    => exchange.response.status = 400 /\ exchange.outbound = <<>>

\* C7: when the external service answers with a non-2xx status and a JSON
\* body, the proxy answers with that status and that body.
C7_UpstreamErrorPassedThrough ==
    ( /\ exchange.kind \in {"POST", "GET"}
      /\ exchange.upstream.kind = "response"
      /\ ~(exchange.upstream.status \in 200..299)
      /\ exchange.upstream.text \in JsonTexts )
    => /\ exchange.response.status = exchange.upstream.status
       /\ exchange.response.body = JsonParse(exchange.upstream.text)

\* C8: whatever the status code of the external service's answer, success or
\* not, the proxy answers with the same status code.
C8_UpstreamStatusPreserved ==
    ( /\ exchange.kind \in {"POST", "GET"}
      /\ exchange.upstream.kind = "response" )
    => exchange.response.status = exchange.upstream.status

\* an upload carrying a PDF payload, or a status request carrying a job id
WellFormedRequest(x) ==
    \/ /\ x.kind = "POST"
       /\ x.request.parsed
       /\ x.request.file.kind = "blob"
       /\ x.request.file.type = "application/pdf"
    \/ /\ x.kind = "GET"
       /\ x.request.jobId \notin {Null, ""}

\* C9: if either credential value is absent (unset or empty), an upload with
\* a valid PDF payload and a status request with a job identifier each end
\* with 500 and a body naming the missing credentials, and no outbound call
\* is made while handling the request.
C9_MissingCredentialsIsServerError ==
    ( /\ exchange.kind \in {"POST", "GET"}
      /\ WellFormedRequest(exchange)
      /\ APP_ID \in {Absent, ""} \/ APP_KEY \in {Absent, ""} )
    => /\ exchange.response.status = 500
       /\ exchange.response.body =
            JsObject("{\"error\":\"Mathpix credentials are missing. Set MATHPIX_APP_ID and MATHPIX_APP_KEY env vars.\"}")
       /\ exchange.outbound = <<>>

\* C9 witness: a valid upload was handled with only one of the two
\* credentials missing.
C9_Witness ==
    /\ exchange.kind = "POST"
    /\ WellFormedRequest(exchange)
    /\ APP_ID = "secret"
    /\ APP_KEY = Absent
    /\ exchange.response.status = 500

\* C16: when the external service answers a status lookup with a non-2xx
\* status, the proxy answers with that status; its body is the message
\* "Mathpix status lookup failed with <status>." exactly when the upstream
\* body is empty, and a non-empty upstream body is relayed (its JSON value
\* when it parses, its text otherwise).
C16_FallbackExactlyForEmptyBody ==
    ( /\ exchange.kind = "GET"
      /\ exchange.upstream.kind = "response"
      /\ exchange.upstream.status \notin 200..299 )
    => /\ exchange.response.status = exchange.upstream.status
       /\ exchange.upstream.text = ""
            <=> exchange.response.body =
                  JsObject("{\"error\":\"Mathpix status lookup failed with "
                           \o ToString(exchange.upstream.status) \o ".\"}")
       /\ exchange.upstream.text # "" =>
             exchange.response.body =
                IF exchange.upstream.text \in JsonTexts
                THEN JsonParse(exchange.upstream.text)
                ELSE JsString(exchange.upstream.text)

\* C17: every request is handled with the credential pair process.env holds
\* when the request is handled: an outbound call carries these two values,
\* a well-formed request is answered 500 without an outbound call when one
\* of them is absent, and is forwarded when both are set.
C17_CredentialsReadPerRequest ==
    [][ handled' # handled =>
          /\ exchange'.outbound # <<>> =>
                /\ exchange'.outbound[1].app_id = env.MATHPIX_APP_ID
                /\ exchange'.outbound[1].app_key = env.MATHPIX_APP_KEY
          /\ ( /\ WellFormedRequest(exchange')
               /\ env.MATHPIX_APP_ID \in {Absent, ""}
                    \/ env.MATHPIX_APP_KEY \in {Absent, ""} )
             => exchange'.response.status = 500 /\ exchange'.outbound = <<>>
          /\ ( /\ WellFormedRequest(exchange')
               /\ env.MATHPIX_APP_ID \notin {Absent, ""}
               /\ env.MATHPIX_APP_KEY \notin {Absent, ""} )
             => exchange'.outbound # <<>>
      ]_vars
====
